---- MODULE Spec2Model ----
(***************************************************************************)
(* Model of backend/src/solver/solver.py: solve(data) builds a CP-SAT      *)
(* model of a multi-day fuel-logistics schedule, solves it and reports.    *)
(*                                                                         *)
(* A solution of the CP-SAT model is an assignment of every variable that  *)
(* satisfies every constraint added with model.add.  Every constraint of   *)
(* solve() relates starts at slots <= t to the inventory at boundaries     *)
(* <= t+1 of the same day (or to sums over finished days), so the set of   *)
(* solutions is enumerated here slot by slot: Step extends an assignment   *)
(* by one slot and is guarded by exactly the constraints that the new      *)
(* slot completes, CloseDay by the constraints over whole days and weeks.  *)
(* An assignment that reaches the end of the horizon satisfies all         *)
(* constraints and is a solution the solver may return (FEASIBLE, or       *)
(* OPTIMAL when it also maximises total_deliveries); a partial assignment  *)
(* that cannot be extended is simply abandoned.                            *)
(*                                                                         *)
(* Only the day being filled keeps its start and inventory arrays; a       *)
(* finished day keeps the values the rest of solve() reads from it         *)
(* (day_vals).                                                             *)
(***************************************************************************)
EXTENDS Integers, Sequences, FiniteSets, TLC

VARIABLES
    data,       \* the request document (input of solve)
    pc,         \* "slots" | "day_end" | "report" | "returned" | "raised"
    status,     \* solver status name, "" before solver.solve returns
    d,          \* index of the day being filled
    t,          \* next slot to assign on day d (boundary reached so far)
    FT, ET, Tf, Te,  \* inventory of day d: functions on the boundaries 0..t
    S_start, U_start,  \* day d: [driver i -> set of slots where the start is 1]
    V_start, A_start,  \* day d: [driver j -> set of slots where the start is 1]
    R_start,    \* day d: function on the slots 0..t-1, refill starts
    drive_slots_T, drive_slots_L,  \* day d: [driver -> set of slots whose drv_t is 1]
    ext_T, ext_L,  \* day d: extended-day flags, assigned when the day closes
    day_vals,   \* finished days: sequence of the values read from them
    value_reads,  \* number of solver.value calls made by the reporter
    result      \* the SolveResult returned, or NoResult

vars == <<data, pc, status, d, t, FT, ET, Tf, Te, S_start, U_start, V_start,
          A_start, R_start, drive_slots_T, drive_slots_L, ext_T, ext_L, day_vals,
          value_reads, result>>

\* ------------------------------------------------------------------ helpers

Max(a, b) == IF a >= b THEN a ELSE b

Min(a, b) == IF a <= b THEN a ELSE b

RECURSIVE Sum(_, _)
\* sum of f[x] for x in D (Python's sum over a generator)
Sum(f, D) ==
    IF D = {} THEN 0
    ELSE LET x == CHOOSE y \in D : TRUE IN f[x] + Sum(f, D \ {x})

\* data.get(key, default)
Get(key, default) == IF key \in DOMAIN data THEN data[key] ELSE default

\* ------------------------------------------------- parameters (lines 34-70)

days == data.days

n == Len(days)

\* days[k] of the Python list, k = 0..n-1
day(k) == days[k + 1]

liters_per_unit == Get("liters_per_unit", 17500)

shift_minutes == Get("shift_minutes", 720)

slot_minutes == Get("slot_minutes", 15)

slots_per_day == shift_minutes \div slot_minutes

livigno_entry_start_minutes == Get("livigno_entry_start_minutes", 120)

livigno_entry_end_minutes == Get("livigno_entry_end_minutes", 750)

livigno_entry_start_slot == livigno_entry_start_minutes \div slot_minutes

livigno_entry_end_slot == livigno_entry_end_minutes \div slot_minutes

break_window_minutes == Get("break_window_minutes", 315)

break_drive_cap_minutes == Get("break_drive_cap_minutes", 270)

break_window_slots == break_window_minutes \div slot_minutes

break_drive_cap_slots == break_drive_cap_minutes \div slot_minutes

max_resident_trips == Get("max_resident_trips", 2)

max_adr_trips == Get("max_adr_trips", 1)

adr_weekly_cap == Get("adr_weekly_cap", 2)

drive_minutes_daily == Get("drive_minutes_daily", 540)

drive_minutes_extended == Get("drive_minutes_extended", 600)

max_extended_days_per_week == Get("max_extended_days_per_week", 2)

weekly_drive_limit_minutes == Get("weekly_drive_limit_minutes", 3360)

biweekly_drive_limit_minutes == Get("biweekly_drive_limit_minutes", 5400)

drivers_T_base == Get("drivers_T_base", 4)

drivers_L_base == Get("drivers_L_base", 1)

init_FT == data.initial_state.FT

init_ET == data.initial_state.ET

init_Tf == data.initial_state.Tf

init_Te == data.initial_state.Te

total_trailers == Get("total_trailers", init_FT + init_ET)

total_tractors == Get("total_tractors", init_Tf + init_Te)

\* ------------------------------------- durations and offsets (lines 72-99)

supply_slots == 345 \div slot_minutes

shuttle_slots == 240 \div slot_minutes

resident_slots == 270 \div slot_minutes

adr_slots == 585 \div slot_minutes

refill_slots == 30 \div slot_minutes

\* the supply end applied one slot early
supply_end_offset_early == supply_slots - 1

supply_end_offset == supply_slots

shuttle_end_offset == shuttle_slots

refill_end_offset == refill_slots

resident_refill_start_offset == 90 \div slot_minutes

resident_refill_end_offset == (90 + 30) \div slot_minutes

adr_refill_start_offset == 90 \div slot_minutes

adr_supply_end_offset == adr_refill_start_offset + supply_end_offset

supply_drive_offsets == (0..9) \cup (13..22)

shuttle_drive_offsets == (0..7) \cup (10..15)

resident_drive_offsets == (0..5) \cup (8..15)

adr_drive_offsets == (0..15) \cup (19..36)

shuttle_livigno_entry_offset == 120 \div slot_minutes

resident_livigno_entry_offset == 240 \div slot_minutes

adr_livigno_entry_offset == 555 \div slot_minutes

\* driving minutes per start, the coefficients of drive_day (lines 170, 238)
supply_drive_minutes == 300

shuttle_drive_minutes == 210

resident_drive_minutes == 210

adr_drive_minutes == 510

DriversT == 0 .. (drivers_T_base - 1)

DriversL == 0 .. (drivers_L_base - 1)

Slots == 0 .. (slots_per_day - 1)

\* ----------------------------------------------------- ISO weeks (27-30)

\* A date is held as its ordinal day of 2024 (1 = 2024-01-01, a Monday); for
\* these dates date.isocalendar() is year 2024, week (ordinal-1) div 7 + 1.
IsoYear == 2024

_iso_year_week(date) == <<IsoYear, ((date - 1) \div 7) + 1, ((date - 1) % 7) + 1>>

\* line 349-350: the (year, week) key day k is filed under
week_key(k) == <<_iso_year_week(day(k).date)[1], _iso_year_week(day(k).date)[2]>>

\* ------------------------------------------ start variables (lines 131-220)

\* every driver of the base roster taken as available
available_T_always(i) == 1

available_T(i) == IF i < day(d).D_T THEN 1 ELSE 0

available_L(j) == IF j < day(d).D_L THEN 1 ELSE 0

\* whether the entry slot of a start lies in the Livigno entry window
entry_ok(entry_slot) ==
    livigno_entry_start_slot <= entry_slot /\ entry_slot <= livigno_entry_end_slot

\* S_start[d][i][k] is a Boolean variable (TRUE) or the constant 0 (FALSE)
S_is_var(i, k) == available_T(i) = 1 /\ k + supply_slots <= slots_per_day

\* the shuttle start variable created without the entry-window test
U_is_var_no_entry(i, k) == available_T(i) = 1 /\ k + shuttle_slots <= slots_per_day

U_is_var(i, k) ==
    /\ available_T(i) = 1 /\ k + shuttle_slots <= slots_per_day
    /\ entry_ok(k + shuttle_livigno_entry_offset)

V_is_var(j, k) ==
    /\ available_L(j) = 1 /\ k + resident_slots <= slots_per_day
    /\ entry_ok(k + resident_livigno_entry_offset)

A_is_var(j, k) ==
    /\ available_L(j) = 1 /\ k + adr_slots <= slots_per_day
    /\ entry_ok(k + adr_livigno_entry_offset)

\* ------------------------------- per-driver constraints (154-190, 222-264)

\* the start slots t0 of one kind that the loops append to cover for slot k
cover(starts, dur, k) ==
    {t0 \in starts : /\ t0 >= Max(0, k - dur + 1)
                     /\ t0 < Min(k + 1, slots_per_day)
                     /\ t0 + dur <= slots_per_day}

\* no_overlap with each task taken one slot shorter than it is
no_overlap_short(x, dur_x, y, dur_y, k) ==
    Cardinality(cover(x, dur_x - 1, k)) + Cardinality(cover(y, dur_y - 1, k)) <= 1

\* model.add(sum(cover) <= 1) for slot k of a driver with start sets x, y
no_overlap(x, dur_x, y, dur_y, k) ==
    Cardinality(cover(x, dur_x, k)) + Cardinality(cover(y, dur_y, k)) <= 1

\* the start slots of one kind appended to contributors for slot k
contributors(starts, dur, offs, k) ==
    {t0 \in cover(starts, dur, k) : (k - t0) \in offs}

\* sum(contributors) for slot k of a Tirano / Livigno driver
drv_sum_T(s, u, k) ==
    Cardinality(contributors(s, supply_slots, supply_drive_offsets, k))
    + Cardinality(contributors(u, shuttle_slots, shuttle_drive_offsets, k))

drv_sum_L(v, a, k) ==
    Cardinality(contributors(v, resident_slots, resident_drive_offsets, k))
    + Cardinality(contributors(a, adr_slots, adr_drive_offsets, k))

\* the window constraint with one more driving slot allowed
break_rule_loose(drive_slots, k) ==
    (break_window_slots <= slots_per_day /\ k - break_window_slots + 1 >= 0)
        => Cardinality({x \in drive_slots : x >= k - break_window_slots + 1 /\ x <= k})
               <= break_drive_cap_slots + 1

\* the window constraint of lines 188-190 / 256-258 whose last slot is k:
\* sum(drive_slots[t0 : t0 + break_window_slots]) for t0 = k - window + 1,
\* drive_slots being held as the set of slots whose drv_t is 1
break_rule(drive_slots, k) ==
    (break_window_slots <= slots_per_day /\ k - break_window_slots + 1 >= 0)
        => Cardinality({x \in drive_slots : x >= k - break_window_slots + 1 /\ x <= k})
               <= break_drive_cap_slots

\* drive_slots.append(drv_t)
append_drv(drive_slots, drv_t, k) ==
    IF drv_t = 1 THEN drive_slots \cup {k} ELSE drive_slots

\* drive_day of lines 168-171 / 236-239
drive_day_T(s, u) ==
    Cardinality(s) * supply_drive_minutes + Cardinality(u) * shuttle_drive_minutes

drive_day_L(v, a) ==
    Cardinality(v) * resident_drive_minutes + Cardinality(a) * adr_drive_minutes

\* drive_day is an IntVar with domain [0, drive_minutes_extended]
drive_day_domain(m) == 0 <= m /\ m <= drive_minutes_extended

\* the daily limit without the extended flag
daily_limit_no_flag(m, ext) == m <= drive_minutes_extended

\* line 172 / 240
daily_limit(m, ext) ==
    m <= drive_minutes_daily + ext * (drive_minutes_extended - drive_minutes_daily)

\* lines 260-264
trip_caps(v, a) ==
    /\ max_resident_trips >= 0 => Cardinality(v) <= max_resident_trips
    /\ max_adr_trips >= 0 => Cardinality(a) <= max_adr_trips

\* everything lines 154-190 add for slot k of a Tirano driver with starts
\* s, u and driving slots ds before slot k (sums of starts only grow along a
\* day, so a bound on a day's sum is imposed on every prefix of the day)
driver_T_ok(s, u, ds, k) ==
    /\ no_overlap(s, supply_slots, u, shuttle_slots, k)
    /\ drv_sum_T(s, u, k) \in {0, 1}
    /\ break_rule(append_drv(ds, drv_sum_T(s, u, k), k), k)
    /\ drive_day_domain(drive_day_T(s, u))

\* lines 222-264 for slot k of a Livigno driver
driver_L_ok(v, a, ds, k) ==
    /\ no_overlap(v, resident_slots, a, adr_slots, k)
    /\ drv_sum_L(v, a, k) \in {0, 1}
    /\ break_rule(append_drv(ds, drv_sum_L(v, a, k), k), k)
    /\ drive_day_domain(drive_day_L(v, a))
    /\ trip_caps(v, a)

\* ------------------------------------------------- inventory (lines 270-344)

\* sum(X_start[d][i][k] for i in range(drivers)): drivers whose start at k is 1
started(X, k) == Cardinality({i \in DOMAIN X : k \in X[i]})

\* a lagged sum (lines 290-316): 0 when the shifted index is negative
lagged(X, k, offset) == IF k - offset >= 0 THEN started(X, k - offset) ELSE 0

\* refill_end of lines 298-300, R being the day's refill starts (with slot k)
refill_lagged(R, k) == IF k - refill_end_offset >= 0 THEN R[k - refill_end_offset] ELSE 0

\* lines 319-322, resource availability at the start of slot k
resources_ok(S, U, r, k) ==
    /\ started(S, k) <= ET[k]
    /\ started(S, k) + r <= Te[k]
    /\ started(U, k) <= Tf[k]
    /\ r <= FT[k]

\* lines 325-340, the value the transition constraint gives boundary k+1
FT_next(S, A, V, R, k) ==
    FT[k] + lagged(S, k, supply_end_offset) + lagged(A, k, adr_supply_end_offset)
          - R[k] - lagged(V, k, resident_refill_start_offset)

ET_next(S, A, V, R, k) ==
    ET[k] - started(S, k) + refill_lagged(R, k)
          + lagged(V, k, resident_refill_end_offset)
          - lagged(A, k, adr_refill_start_offset)

Tf_next(S, U, R, k) ==
    Tf[k] + lagged(S, k, supply_end_offset) + refill_lagged(R, k) - started(U, k)

Te_next(S, U, R, k) ==
    Te[k] - started(S, k) - R[k] + lagged(U, k, shuttle_end_offset)

\* the domains given to the inventory variables at lines 118-121
trailer_domain(x) == 0 <= x /\ x <= total_trailers

tractor_domain(x) == 0 <= x /\ x <= total_tractors

\* lines 343-344, added for boundary t + 1 of every slot t
totals_ok(ft, et, tf, te) ==
    ft + et <= total_trailers /\ tf + te <= total_tractors

\* f extended by the value x at the new point k
Extend(f, k, x) == [y \in DOMAIN f \cup {k} |-> IF y = k THEN x ELSE f[y]]

\* ------------------------------------- weekly limits (lines 346-432)

\* the values later constraints and the reporter read from the day being closed
day_record ==
    [S |-> Sum([i \in DriversT |-> Cardinality(S_start[i])], DriversT),
     U |-> Sum([i \in DriversT |-> Cardinality(U_start[i])], DriversT),
     V |-> Sum([j \in DriversL |-> Cardinality(V_start[j])], DriversL),
     A |-> Sum([j \in DriversL |-> Cardinality(A_start[j])], DriversL),
     R |-> Sum(R_start, DOMAIN R_start),
     starts_T |-> [i \in DriversT |-> Cardinality(S_start[i]) + Cardinality(U_start[i])],
     starts_L |-> [j \in DriversL |-> Cardinality(V_start[j]) + Cardinality(A_start[j])],
     drive_T |-> [i \in DriversT |-> drive_day_T(S_start[i], U_start[i])],
     drive_L |-> [j \in DriversL |-> drive_day_L(V_start[j], A_start[j])],
     adr |-> [j \in DriversL |-> Cardinality(A_start[j])],
     FT_start |-> FT[0], ET_start |-> ET[0], Tf_start |-> Tf[0], Te_start |-> Te[0],
     FT_end |-> FT[slots_per_day], ET_end |-> ET[slots_per_day],
     Tf_end |-> Tf[slots_per_day], Te_end |-> Te[slots_per_day]]

\* weeks.keys(): the (year, week) keys of the horizon
week_keys == {week_key(k) : k \in 0 .. (n - 1)}

\* weeks[key], restricted to the days 0..Len(vals)-1 that vals holds
idxs(key, vals) == {k \in 0 .. (Len(vals) - 1) : week_key(k) = key}

key_lt(a, b) == a[1] < b[1] \/ (a[1] = b[1] /\ a[2] < b[2])

\* week_keys[k], week_keys[k + 1] of the sorted key list (line 412-415)
adjacent_weeks ==
    {p \in week_keys \X week_keys :
        /\ key_lt(p[1], p[2])
        /\ ~ \E c \in week_keys : key_lt(p[1], c) /\ key_lt(c, p[2])}

\* the indicator enforced in one direction only: ext => minutes > daily
ext_flag_half(minutes) == IF minutes > drive_minutes_daily THEN {0, 1} ELSE {0}

\* the 0/1 indicator of lines 371-373 / 385-387: both directions are
\* enforced, so ext is 1 exactly when the day's minutes exceed the daily cap
ext_flag(minutes) == IF minutes > drive_minutes_daily THEN {1} ELSE {0}

\* lines 352-358
adr_cap_ok(vals) ==
    adr_weekly_cap >= 0 =>
        \A j \in DriversL : \A key \in week_keys :
            Sum([k \in idxs(key, vals) |-> vals[k + 1].adr[j]], idxs(key, vals))
                <= adr_weekly_cap

\* lines 360-389, for one driver's minutes per day m (a function of the day)
extended_days_ok(m, vals) ==
    \A key \in week_keys :
        /\ \A k \in idxs(key, vals) : drive_day_domain(m[k])
        /\ \E ext \in [idxs(key, vals) -> {0, 1}] :
              /\ \A k \in idxs(key, vals) : ext[k] \in ext_flag(m[k])
              /\ Sum(ext, idxs(key, vals)) <= max_extended_days_per_week

\* lines 391-409, for one driver
weekly_drive_ok(m, vals) ==
    \A key \in week_keys :
        Sum([k \in idxs(key, vals) |-> m[k]], idxs(key, vals))
            <= weekly_drive_limit_minutes

\* lines 411-432, for one driver
biweekly_drive_ok(m, vals) ==
    \A p \in adjacent_weeks :
        LET both == idxs(p[1], vals) \cup idxs(p[2], vals)
        IN  Sum([k \in both |-> m[k]], both) <= biweekly_drive_limit_minutes

minutes_T(vals, i) == [k \in 0 .. (Len(vals) - 1) |-> vals[k + 1].drive_T[i]]

minutes_L(vals, j) == [k \in 0 .. (Len(vals) - 1) |-> vals[k + 1].drive_L[j]]

\* every constraint of lines 346-432 over the days that vals holds (a sum
\* over a week only grows as its days are assigned)
weekly_ok(vals) ==
    /\ adr_cap_ok(vals)
    /\ max_extended_days_per_week >= 0 =>
          /\ \A i \in DriversT : extended_days_ok(minutes_T(vals, i), vals)
          /\ \A j \in DriversL : extended_days_ok(minutes_L(vals, j), vals)
    /\ weekly_drive_limit_minutes >= 0 =>
          /\ \A i \in DriversT : weekly_drive_ok(minutes_T(vals, i), vals)
          /\ \A j \in DriversL : weekly_drive_ok(minutes_L(vals, j), vals)
    /\ (biweekly_drive_limit_minutes >= 0 /\ Cardinality(week_keys) > 1) =>
          /\ \A i \in DriversT : biweekly_drive_ok(minutes_T(vals, i), vals)
          /\ \A j \in DriversL : biweekly_drive_ok(minutes_L(vals, j), vals)

\* the objective without the shuttle starts
total_deliveries_no_shuttle(vals) ==
    Sum([k \in 1 .. Len(vals) |-> vals[k].V + vals[k].A], 1 .. Len(vals))

\* lines 435-444: the value of total_deliveries, an IntVar on 0..n*slots_per_day
total_deliveries(vals) ==
    Sum([k \in 1 .. Len(vals) |-> vals[k].U + vals[k].V + vals[k].A], 1 .. Len(vals))

\* ----------------------------------------------------------------- inputs

NoResult == [status |-> "none"]

StatusOK == {"OPTIMAL", "FEASIBLE"}

\* longest horizon (number of days) of the inputs
MaxDays == 2

\* 2024-06-03, a Monday of ISO week 23, and 2024-06-09, the Sunday closing it
Monday == 155

Sunday == 161

\* The days list that main.build_days hands to solve: h consecutive dates from
\* start, the availabilities taken in turn from the patterns DT and DL.
build_days(start, h, DT, DL) ==
    [k \in 1 .. h |-> [date |-> start + (k - 1),
                       D_T |-> DT[((k - 1) % Len(DT)) + 1],
                       D_L |-> DL[((k - 1) % Len(DL)) + 1]]]

Fleet(ft, et, tf, te) == [FT |-> ft, ET |-> et, Tf |-> tf, Te |-> te]

\* A family of request documents: one per horizon length.
Plan(start, DT, DL, init, keys) ==
    [start |-> start, DT |-> DT, DL |-> DL, init |-> init, keys |-> keys]

\* The request documents explored.  Every plan sets drivers_T_base (the
\* default of 4 drivers is out of reach of an exhaustive search); every
\* other key that is not listed takes the default of lines 36-70.
PlanSupply ==      \* one Tirano driver on the first day, then nobody
    Plan(Monday, <<1, 0, 0>>, <<0>>, Fleet(0, 1, 1, 1), [drivers_T_base |-> 1])

PlanResident ==    \* one Livigno driver on the first day, then nobody
    Plan(Monday, <<0>>, <<1, 0, 0>>, Fleet(2, 1, 0, 0), [drivers_T_base |-> 1])

PlanExtended ==    \* a shuttle is an extended day; one extended day a week
    Plan(Monday, <<1>>, <<0>>, Fleet(0, 0, 2, 0),
         [drivers_T_base |-> 1, livigno_entry_end_minutes |-> 300,
          drive_minutes_daily |-> 200, drive_minutes_extended |-> 420,
          max_extended_days_per_week |-> 1])

PlanWeekly ==      \* two shuttles exceed the weekly minutes
    Plan(Monday, <<1>>, <<0>>, Fleet(0, 0, 2, 0),
         [drivers_T_base |-> 1, livigno_entry_end_minutes |-> 300,
          weekly_drive_limit_minutes |-> 400])

PlanTwoWeeks ==    \* the same over a week boundary, with a biweekly limit
    Plan(Sunday, <<1>>, <<0>>, Fleet(0, 0, 2, 0),
         [drivers_T_base |-> 1, livigno_entry_end_minutes |-> 300,
          weekly_drive_limit_minutes |-> 400, biweekly_drive_limit_minutes |-> 700])

PlanAdr ==         \* one ADR trip a week
    Plan(Monday, <<0>>, <<1>>, Fleet(0, 2, 0, 0),
         [drivers_T_base |-> 1, adr_weekly_cap |-> 1])

PlanNoTrailers ==  \* no trailer at all, late entry window
    Plan(Monday, <<1>>, <<1>>, Fleet(0, 0, 1, 1),
         [drivers_T_base |-> 1, livigno_entry_start_minutes |-> 600])

PlanLateEntry ==   \* both depots, late entry window
    Plan(Monday, <<1>>, <<1>>, Fleet(1, 0, 1, 0),
         [drivers_T_base |-> 1, livigno_entry_start_minutes |-> 600])

PlanTotals ==      \* explicit totals below the initial sums, short shift
    Plan(Monday, <<1>>, <<0>>, Fleet(1, 1, 1, 1),
         [drivers_T_base |-> 1, shift_minutes |-> 345,
          total_trailers |-> 1, total_tractors |-> 1])

PlanOutOfDomain == \* an initial value above its explicit total
    Plan(Monday, <<0>>, <<0>>, Fleet(2, 0, 1, 0),
         [drivers_T_base |-> 1, total_trailers |-> 1])

PlanIdle ==  \* nobody on duty on any day, one full trailer and one empty tractor
    Plan(Monday, <<0>>, <<0>>, Fleet(1, 0, 0, 1), [drivers_T_base |-> 1])

PlanCoarseSlots ==  \* 20-minute slots, which divide neither 345, 270, 585, 30, 90 nor 555
    Plan(Monday, <<1>>, <<0>>, Fleet(0, 0, 1, 0),
         [drivers_T_base |-> 1, slot_minutes |-> 20, shift_minutes |-> 360])

PlanNegativeBreakCap ==  \* break_drive_cap_minutes below zero
    Plan(Monday, <<1>>, <<0>>, Fleet(0, 0, 1, 0),
         [drivers_T_base |-> 1, break_drive_cap_minutes |-> -1])

PlanNegativeExtended ==  \* drive_minutes_extended below zero
    Plan(Monday, <<1>>, <<0>>, Fleet(0, 0, 1, 0),
         [drivers_T_base |-> 1, drive_minutes_extended |-> -1])

PlanTwoDrivers ==  \* two Tirano drivers, then one, then nobody; short shift
    Plan(Monday, <<2, 1, 0>>, <<0>>, Fleet(0, 2, 0, 2),
         [drivers_T_base |-> 2, shift_minutes |-> 360])

Plans ==
    { PlanSupply, PlanResident, PlanExtended, PlanWeekly, PlanTwoWeeks, PlanAdr,
      PlanNoTrailers, PlanLateEntry, PlanTotals, PlanOutOfDomain, PlanTwoDrivers,
      PlanIdle, PlanCoarseSlots, PlanNegativeBreakCap, PlanNegativeExtended }

Inputs ==
    { [days |-> build_days(p.start, h, p.DT, p.DL), initial_state |-> p.init] @@ p.keys :
        p \in Plans, h \in 1 .. MaxDays }

Init ==
    /\ data \in Inputs
    /\ pc = "slots"
    /\ status = ""
    /\ d = 0
    /\ t = 0
    /\ FT = [k \in {0} |-> init_FT]
    /\ ET = [k \in {0} |-> init_ET]
    /\ Tf = [k \in {0} |-> init_Tf]
    /\ Te = [k \in {0} |-> init_Te]
    /\ S_start = [i \in DriversT |-> {}]
    /\ U_start = [i \in DriversT |-> {}]
    /\ V_start = [j \in DriversL |-> {}]
    /\ A_start = [j \in DriversL |-> {}]
    /\ R_start = [k \in {} |-> 0]
    /\ drive_slots_T = [i \in DriversT |-> {}]
    /\ drive_slots_L = [j \in DriversL |-> {}]
    /\ ext_T = [i \in DriversT |-> 0]
    /\ ext_L = [j \in DriversL |-> 0]
    /\ day_vals = <<>>
    /\ value_reads = 0
    /\ result = NoResult

\* ---------------------------------------------------------------- actions

\* One more slot of day d is assigned: the start variables of slot t and the
\* inventory variables of boundary t + 1, under every constraint they close.
Step ==
    /\ pc = "slots"
    /\ t < slots_per_day
    /\ trailer_domain(FT[t]) /\ trailer_domain(ET[t])
    /\ tractor_domain(Tf[t]) /\ tractor_domain(Te[t])
    /\ \E s \in SUBSET {i \in DriversT : S_is_var(i, t)},
          u \in SUBSET {i \in DriversT : U_is_var(i, t)},
          v \in SUBSET {j \in DriversL : V_is_var(j, t)},
          a \in SUBSET {j \in DriversL : A_is_var(j, t)},
          r \in 0 .. total_trailers :
         LET S1 == [i \in DriversT |-> IF i \in s THEN S_start[i] \cup {t} ELSE S_start[i]]
             U1 == [i \in DriversT |-> IF i \in u THEN U_start[i] \cup {t} ELSE U_start[i]]
             V1 == [j \in DriversL |-> IF j \in v THEN V_start[j] \cup {t} ELSE V_start[j]]
             A1 == [j \in DriversL |-> IF j \in a THEN A_start[j] \cup {t} ELSE A_start[j]]
             R1 == Extend(R_start, t, r)
             ft == FT_next(S1, A1, V1, R1, t)
             et == ET_next(S1, A1, V1, R1, t)
             tf == Tf_next(S1, U1, R1, t)
             te == Te_next(S1, U1, R1, t)
         IN  /\ resources_ok(S1, U1, r, t)
             /\ trailer_domain(ft) /\ trailer_domain(et)
             /\ tractor_domain(tf) /\ tractor_domain(te)
             /\ totals_ok(ft, et, tf, te)
             /\ \A i \in DriversT : driver_T_ok(S1[i], U1[i], drive_slots_T[i], t)
             /\ \A j \in DriversL : driver_L_ok(V1[j], A1[j], drive_slots_L[j], t)
             /\ drive_slots_T' = [i \in DriversT |->
                    append_drv(drive_slots_T[i], drv_sum_T(S1[i], U1[i], t), t)]
             /\ drive_slots_L' = [j \in DriversL |->
                    append_drv(drive_slots_L[j], drv_sum_L(V1[j], A1[j], t), t)]
             /\ S_start' = S1 /\ U_start' = U1 /\ V_start' = V1 /\ A_start' = A1
             /\ R_start' = R1
             /\ FT' = Extend(FT, t + 1, ft) /\ ET' = Extend(ET, t + 1, et)
             /\ Tf' = Extend(Tf, t + 1, tf) /\ Te' = Extend(Te, t + 1, te)
    /\ t' = t + 1
    /\ UNCHANGED <<data, pc, status, d, ext_T, ext_L, day_vals, value_reads, result>>

\* Day d is complete: its extended flags are assigned under lines 167-172 /
\* 235-240 and the weekly constraints are imposed on the days so far.
CloseDay ==
    /\ pc = "slots"
    /\ t = slots_per_day
    /\ \E eT \in [DriversT -> {0, 1}], eL \in [DriversL -> {0, 1}] :
         /\ \A i \in DriversT :
               /\ available_T(i) = 0 => eT[i] = 0
               /\ daily_limit(drive_day_T(S_start[i], U_start[i]), eT[i])
         /\ \A j \in DriversL :
               /\ available_L(j) = 0 => eL[j] = 0
               /\ daily_limit(drive_day_L(V_start[j], A_start[j]), eL[j])
         /\ ext_T' = eT /\ ext_L' = eL
    /\ weekly_ok(Append(day_vals, day_record))
    /\ day_vals' = Append(day_vals, day_record)
    /\ pc' = "day_end"
    /\ UNCHANGED <<data, status, d, t, FT, ET, Tf, Te, S_start, U_start, V_start,
                   A_start, R_start, drive_slots_T, drive_slots_L, value_reads, result>>

\* Lines 276-280: boundary 0 of day d + 1 is the last boundary of day d.
NextDay ==
    /\ pc = "day_end"
    /\ d + 1 < n
    /\ d' = d + 1
    /\ t' = 0
    /\ FT' = [k \in {0} |-> FT[slots_per_day]]
    /\ ET' = [k \in {0} |-> ET[slots_per_day]]
    /\ Tf' = [k \in {0} |-> Tf[slots_per_day]]
    /\ Te' = [k \in {0} |-> Te[slots_per_day]]
    /\ S_start' = [i \in DriversT |-> {}]
    /\ U_start' = [i \in DriversT |-> {}]
    /\ V_start' = [j \in DriversL |-> {}]
    /\ A_start' = [j \in DriversL |-> {}]
    /\ R_start' = [k \in {} |-> 0]
    /\ drive_slots_T' = [i \in DriversT |-> {}]
    /\ drive_slots_L' = [j \in DriversL |-> {}]
    /\ ext_T' = [i \in DriversT |-> 0]
    /\ ext_L' = [j \in DriversL |-> 0]
    /\ pc' = "slots"
    /\ UNCHANGED <<data, status, day_vals, value_reads, result>>

\* Line 451: solver.solve returns with an assignment of every variable that
\* satisfies every constraint.  (Which of these assignments maximise
\* total_deliveries is not computed here: either status name may label any
\* of them, so what holds of all of them holds of the optimal ones.)
SolveFound ==
    /\ pc = "day_end"
    /\ d + 1 = n
    /\ total_deliveries(day_vals) \in 0 .. (n * slots_per_day)
    /\ \E st \in StatusOK : status' = st
    /\ pc' = "report"
    /\ UNCHANGED <<data, d, t, FT, ET, Tf, Te, S_start, U_start, V_start, A_start,
                   R_start, drive_slots_T, drive_slots_L, ext_T, ext_L, day_vals,
                   value_reads, result>>

\* Lines 272-275 against the domains of lines 118-121: an initial value
\* outside its variable's domain leaves the model without any assignment.
init_in_domain ==
    /\ trailer_domain(init_FT) /\ trailer_domain(init_ET)
    /\ tractor_domain(init_Tf) /\ tractor_domain(init_Te)

SolveInfeasible ==
    /\ pc = "slots" /\ d = 0 /\ t = 0
    /\ ~ init_in_domain
    /\ status' = "INFEASIBLE"
    /\ pc' = "report"
    /\ UNCHANGED <<data, d, t, FT, ET, Tf, Te, S_start, U_start, V_start, A_start,
                   R_start, drive_slots_T, drive_slots_L, ext_T, ext_L, day_vals,
                   value_reads, result>>

\* Line 448: the time limit can expire before any assignment is found.
SolveUnknown ==
    /\ pc = "slots" /\ d = 0 /\ t = 0
    /\ status' = "UNKNOWN"
    /\ pc' = "report"
    /\ UNCHANGED <<data, d, t, FT, ET, Tf, Te, S_start, U_start, V_start, A_start,
                   R_start, drive_slots_T, drive_slots_L, ext_T, ext_L, day_vals,
                   value_reads, result>>

\* solver.value calls of one pass of the loop body at lines 455-503
reads_per_day ==
    4 * drivers_T_base * slots_per_day + 4 * drivers_L_base * slots_per_day
    + slots_per_day + 8

\* days_out[k] (lines 482-503) from the values read for day k
day_out(k, vals) ==
    [date |-> day(k).date, D_T |-> day(k).D_T, D_L |-> day(k).D_L,
     S |-> vals.S, U |-> vals.U, V |-> vals.V, A |-> vals.A, R |-> vals.R,
     drivers_T |-> vals.starts_T, drivers_L |-> vals.starts_L,
     FT_start |-> vals.FT_start, ET_start |-> vals.ET_start,
     Tf_start |-> vals.Tf_start, Te_start |-> vals.Te_start,
     FT_end |-> vals.FT_end, ET_end |-> vals.ET_end,
     Tf_end |-> vals.Tf_end, Te_end |-> vals.Te_end]

\* Lines 454-513 when the solver holds an assignment.
ReportSolution ==
    /\ pc = "report"
    /\ status \in StatusOK
    /\ value_reads' = n * reads_per_day + 1
    /\ result' = [status |-> status,
                  objective_deliveries |-> total_deliveries(day_vals),
                  objective_liters |-> total_deliveries(day_vals) * liters_per_unit,
                  days |-> [k \in 1 .. n |-> day_out(k - 1, day_vals[k])]]
    /\ pc' = "returned"
    /\ UNCHANGED <<data, status, d, t, FT, ET, Tf, Te, S_start, U_start, V_start,
                   A_start, R_start, drive_slots_T, drive_slots_L, ext_T, ext_L,
                   day_vals>>

\* what solver.value yields for every variable when the response holds no
\* assignment and the call does not raise
read_without_solution(x) ==
    [S |-> x, U |-> x, V |-> x, A |-> x, R |-> x,
     starts_T |-> [i \in DriversT |-> x], starts_L |-> [j \in DriversL |-> x],
     FT_start |-> x, ET_start |-> x, Tf_start |-> x, Te_start |-> x,
     FT_end |-> x, ET_end |-> x, Tf_end |-> x, Te_end |-> x]

\* Lines 454-513 when the solver holds no assignment: the loop at 455-503
\* is not guarded by the status, so solver.value is still called.  With no
\* solution in the response the call either raises (solve never returns) or
\* yields a value that is no assignment; only line 505 looks at the status.
ReportNoSolution ==
    /\ pc = "report"
    /\ status \notin StatusOK
    /\ \/ /\ value_reads' = 1
          /\ result' = NoResult
          /\ pc' = "raised"
       \/ /\ value_reads' = n * reads_per_day
          /\ \E x \in {0, 1} :
                result' = [status |-> status,
                           objective_deliveries |-> 0,
                           objective_liters |-> 0 * liters_per_unit,
                           days |-> [k \in 1 .. n |->
                                       day_out(k - 1, read_without_solution(x))]]
          /\ pc' = "returned"
    /\ UNCHANGED <<data, status, d, t, FT, ET, Tf, Te, S_start, U_start, V_start,
                   A_start, R_start, drive_slots_T, drive_slots_L, ext_T, ext_L,
                   day_vals>>

Next ==
    \/ Step
    \/ CloseDay
    \/ NextDay
    \/ SolveFound
    \/ SolveInfeasible
    \/ SolveUnknown
    \/ ReportSolution
    \/ ReportNoSolution

Spec == Init /\ [][Next]_vars

\* ------------------------------------------------------------- properties

\* the day being filled is complete: every variable of day d is assigned
DayAssigned == pc \in {"day_end", "report", "returned"} /\ status \in StatusOK \cup {""}

\* C1: in every solution with status OPTIMAL or FEASIBLE, at every slot
\* boundary of the day (boundary 0 of day 0 included) FT, ET, Tf and Te are
\* non-negative, FT + ET <= total_trailers and Tf + Te <= total_tractors,
\* also when the totals are supplied explicitly.
C1_InventoryWithinTotals ==
    status \in StatusOK =>
        \A k \in DOMAIN FT :
            /\ FT[k] >= 0 /\ ET[k] >= 0 /\ Tf[k] >= 0 /\ Te[k] >= 0
            /\ FT[k] + ET[k] <= total_trailers
            /\ Tf[k] + Te[k] <= total_tractors

\* C2: for each day and driver, every slot is covered by at most one
\* started task, a task started at t0 covering t0 <= k < t0 + its duration.
C2_NoOverlap ==
    /\ \A i \in DriversT : \A k \in Slots :
          Cardinality({t0 \in S_start[i] : t0 <= k /\ k < t0 + supply_slots})
          + Cardinality({t0 \in U_start[i] : t0 <= k /\ k < t0 + shuttle_slots}) <= 1
    /\ \A j \in DriversL : \A k \in Slots :
          Cardinality({t0 \in V_start[j] : t0 <= k /\ k < t0 + resident_slots})
          + Cardinality({t0 \in A_start[j] : t0 <= k /\ k < t0 + adr_slots}) <= 1

\* a driver runs a shuttle from the very slot where its supply trip ends, or
\* a second resident trip from the slot where the first ends
C2_Witness ==
    \/ \E i \in DriversT : \E t0 \in S_start[i] : (t0 + supply_slots) \in U_start[i]
    \/ \E j \in DriversL : \E t0 \in V_start[j] : (t0 + resident_slots) \in V_start[j]

\* C3: with 15-minute slots the inventory obeys, for every slot k of the day,
\*   FT[k+1] = FT[k] + s[k-23] + a[k-29] - r[k] - v[k-6]
\*   ET[k+1] = ET[k] - s[k] + r[k-2] + v[k-8] - a[k-6]
\*   Tf[k+1] = Tf[k] + s[k-23] + r[k-2] - u[k]
\*   Te[k+1] = Te[k] - s[k] - r[k] + u[k-16]
\* (a term with a negative index is 0); boundary 0 of day 0 is initial_state
\* and boundary 0 of a later day is the last boundary of the day before.
C3_Conservation ==
    LET s(k) == IF k < 0 THEN 0 ELSE Cardinality({i \in DriversT : k \in S_start[i]})
        u(k) == IF k < 0 THEN 0 ELSE Cardinality({i \in DriversT : k \in U_start[i]})
        v(k) == IF k < 0 THEN 0 ELSE Cardinality({j \in DriversL : k \in V_start[j]})
        a(k) == IF k < 0 THEN 0 ELSE Cardinality({j \in DriversL : k \in A_start[j]})
        r(k) == IF k < 0 THEN 0 ELSE R_start[k]
    IN  slot_minutes = 15 =>
          /\ \A k \in DOMAIN R_start :
                /\ FT[k + 1] = FT[k] + s(k - 23) + a(k - 29) - r(k) - v(k - 6)
                /\ ET[k + 1] = ET[k] - s(k) + r(k - 2) + v(k - 8) - a(k - 6)
                /\ Tf[k + 1] = Tf[k] + s(k - 23) + r(k - 2) - u(k)
                /\ Te[k + 1] = Te[k] - s(k) - r(k) + u(k - 16)
          /\ d = 0 => /\ FT[0] = data.initial_state.FT /\ ET[0] = data.initial_state.ET
                      /\ Tf[0] = data.initial_state.Tf /\ Te[0] = data.initial_state.Te
          /\ d > 0 => /\ FT[0] = day_vals[d].FT_end /\ ET[0] = day_vals[d].ET_end
                      /\ Tf[0] = day_vals[d].Tf_end /\ Te[0] = day_vals[d].Te_end

\* a second day that starts from an inventory a supply trip and a shuttle
\* have changed, and on which a refill has started and ended
C3_Witness ==
    /\ slot_minutes = 15 /\ d = 1 /\ t = slots_per_day
    /\ day_vals[1].S = 1 /\ day_vals[1].U = 1
    /\ FT[0] # data.initial_state.FT
    /\ \E k \in DOMAIN R_start : R_start[k] = 1 /\ k + 2 < slots_per_day

\* C4: for each driver and day, every window of break_window_slots
\* consecutive slots inside the shift holds at most break_drive_cap_slots
\* slots in which the driver drives (the slot's offset from the start of the
\* task covering it is one of the kind's driving offsets).
C4_BreakRule ==
    LET drivesT(i, x) ==
            \/ \E t0 \in S_start[i] : (x - t0) \in supply_drive_offsets
            \/ \E t0 \in U_start[i] : (x - t0) \in shuttle_drive_offsets
        drivesL(j, x) ==
            \/ \E t0 \in V_start[j] : (x - t0) \in resident_drive_offsets
            \/ \E t0 \in A_start[j] : (x - t0) \in adr_drive_offsets
    IN  DayAssigned =>
          \A w \in 0 .. (slots_per_day - break_window_slots) :
            /\ \A i \in DriversT :
                  Cardinality({x \in w .. (w + break_window_slots - 1) : drivesT(i, x)})
                      <= break_drive_cap_slots
            /\ \A j \in DriversL :
                  Cardinality({x \in w .. (w + break_window_slots - 1) : drivesL(j, x)})
                      <= break_drive_cap_slots

\* a complete day on which a driver runs a supply trip and a shuttle and
\* drives in exactly break_drive_cap_slots slots of some window
C4_Witness ==
    /\ DayAssigned
    /\ \E i \in DriversT :
          /\ S_start[i] # {} /\ U_start[i] # {}
          /\ \E w \in 0 .. (slots_per_day - break_window_slots) :
                Cardinality({x \in drive_slots_T[i] : w <= x /\ x < w + break_window_slots})
                    = break_drive_cap_slots

\* C5: a start indicator is 0 whenever the driver index is not below the
\* day's availability, or the task would end after the shift, or (U, V, A
\* only) the entry anchor (+120, +240, +555 minutes) falls outside
\* [livigno_entry_start_slot, livigno_entry_end_slot].
C5_ForcedZero ==
    LET inWindow(k, minutes) ==
            /\ livigno_entry_start_slot <= k + (minutes \div slot_minutes)
            /\ k + (minutes \div slot_minutes) <= livigno_entry_end_slot
    IN  /\ \A i \in DriversT :
              /\ \A k \in S_start[i] :
                    i < day(d).D_T /\ k + supply_slots <= slots_per_day
              /\ \A k \in U_start[i] :
                    /\ i < day(d).D_T /\ k + shuttle_slots <= slots_per_day
                    /\ inWindow(k, 120)
        /\ \A j \in DriversL :
              /\ \A k \in V_start[j] :
                    /\ j < day(d).D_L /\ k + resident_slots <= slots_per_day
                    /\ inWindow(k, 240)
              /\ \A k \in A_start[j] :
                    /\ j < day(d).D_L /\ k + adr_slots <= slots_per_day
                    /\ inWindow(k, 555)

\* with a late entry window: a shuttle starts at the first slot the window
\* admits (every earlier slot is forced to 0) on a day where a supply trip
\* starts before the window opens or a resident trip starts in its window
C5_Witness ==
    /\ livigno_entry_start_slot > shuttle_livigno_entry_offset
    /\ \E i \in DriversT :
          (livigno_entry_start_slot - shuttle_livigno_entry_offset) \in U_start[i]
    /\ \/ \E i \in DriversT : \E k \in S_start[i] : k < livigno_entry_start_slot
       \/ \E j \in DriversL : V_start[j] # {}

\* C6: for every driver and day the driving minutes (300 per S, 210 per U,
\* 210 per V, 510 per A) are at most drive_minutes_daily, or at most
\* drive_minutes_extended when the driver-day's extended flag is set; the
\* flag of an unavailable driver is 0.
C6_DailyDriving ==
    DayAssigned =>
        /\ \A i \in DriversT :
              LET minutes == 300 * Cardinality(S_start[i]) + 210 * Cardinality(U_start[i])
              IN  /\ ext_T[i] = 0 => minutes <= drive_minutes_daily
                  /\ ext_T[i] = 1 => minutes <= drive_minutes_extended
                  /\ ext_T[i] \in {0, 1}
                  /\ i >= day(d).D_T => ext_T[i] = 0
        /\ \A j \in DriversL :
              LET minutes == 210 * Cardinality(V_start[j]) + 510 * Cardinality(A_start[j])
              IN  /\ ext_L[j] = 0 => minutes <= drive_minutes_daily
                  /\ ext_L[j] = 1 => minutes <= drive_minutes_extended
                  /\ ext_L[j] \in {0, 1}
                  /\ j >= day(d).D_L => ext_L[j] = 0

\* a complete day on which a driver exceeds the daily minutes under a set flag
C6_Witness ==
    /\ DayAssigned
    /\ \E i \in DriversT :
          /\ ext_T[i] = 1
          /\ 300 * Cardinality(S_start[i]) + 210 * Cardinality(U_start[i])
                 > drive_minutes_daily

\* C7: over the assigned days, for every driver and every ISO (year, week):
\* the driving minutes are <= weekly_drive_limit_minutes, the days whose
\* minutes exceed drive_minutes_daily are <= max_extended_days_per_week, and
\* an L-driver's A starts are <= adr_weekly_cap (each limit being >= 0).
C7_WeeklyLimits ==
    \A key \in week_keys :
        LET D == {k \in 0 .. (Len(day_vals) - 1) : week_key(k) = key}
        IN  /\ \A i \in DriversT :
                  /\ weekly_drive_limit_minutes >= 0 =>
                        Sum([k \in D |-> day_vals[k + 1].drive_T[i]], D)
                            <= weekly_drive_limit_minutes
                  /\ max_extended_days_per_week >= 0 =>
                        Cardinality({k \in D : day_vals[k + 1].drive_T[i] > drive_minutes_daily})
                            <= max_extended_days_per_week
            /\ \A j \in DriversL :
                  /\ weekly_drive_limit_minutes >= 0 =>
                        Sum([k \in D |-> day_vals[k + 1].drive_L[j]], D)
                            <= weekly_drive_limit_minutes
                  /\ max_extended_days_per_week >= 0 =>
                        Cardinality({k \in D : day_vals[k + 1].drive_L[j] > drive_minutes_daily})
                            <= max_extended_days_per_week
                  /\ adr_weekly_cap >= 0 =>
                        Sum([k \in D |-> day_vals[k + 1].adr[j]], D) <= adr_weekly_cap

\* two assigned days of one ISO week in which a driver has used up the
\* week's extended days
C7_Witness ==
    /\ Len(day_vals) >= 2
    /\ week_key(0) = week_key(1)
    /\ max_extended_days_per_week >= 1
    /\ \E i \in DriversT :
          Cardinality({k \in 0 .. 1 : day_vals[k + 1].drive_T[i] > drive_minutes_daily})
              = max_extended_days_per_week

\* C8 as stated: on a day with D_T = 0 and D_L = 0 every start (S, U, V, A
\* and refill R) is 0 and FT, ET, Tf, Te at the last boundary equal their
\* values at boundary 0.
C8_IdleDayAllZero ==
    (DayAssigned /\ day(d).D_T = 0 /\ day(d).D_L = 0) =>
        /\ \A i \in DriversT : S_start[i] = {} /\ U_start[i] = {}
        /\ \A j \in DriversL : V_start[j] = {} /\ A_start[j] = {}
        /\ \A k \in DOMAIN R_start : R_start[k] = 0
        /\ FT[slots_per_day] = FT[0] /\ ET[slots_per_day] = ET[0]
        /\ Tf[slots_per_day] = Tf[0] /\ Te[slots_per_day] = Te[0]

\* C8 amended: on a day with D_T = 0 and D_L = 0 every driver start (S, U, V,
\* A) is 0; refills may start: FT and Te end the day lower by the refills
\* started, ET and Tf higher by the refills whose end falls on a slot of the
\* day, and the inventory is unchanged exactly when no refill starts.
C8_IdleDayRefillsOnly ==
    (DayAssigned /\ day(d).D_T = 0 /\ day(d).D_L = 0) =>
        LET refills == Sum(R_start, DOMAIN R_start)
            ended == {k \in DOMAIN R_start : k + refill_slots < slots_per_day}
        IN  /\ \A i \in DriversT : S_start[i] = {} /\ U_start[i] = {}
            /\ \A j \in DriversL : V_start[j] = {} /\ A_start[j] = {}
            /\ FT[slots_per_day] = FT[0] - refills
            /\ Te[slots_per_day] = Te[0] - refills
            /\ ET[slots_per_day] = ET[0] + Sum([k \in ended |-> R_start[k]], ended)
            /\ Tf[slots_per_day] = Tf[0] + Sum([k \in ended |-> R_start[k]], ended)
            /\ refills = 0 <=>
                  /\ FT[slots_per_day] = FT[0] /\ ET[slots_per_day] = ET[0]
                  /\ Tf[slots_per_day] = Tf[0] /\ Te[slots_per_day] = Te[0]

\* a complete day without drivers on which a refill starts
C8_Witness ==
    /\ DayAssigned /\ day(d).D_T = 0 /\ day(d).D_L = 0
    /\ \E k \in DOMAIN R_start : R_start[k] >= 1

\* C9 as stated: a one-day horizon whose initial_state has ET = 0 and FT = 0
\* has objective 0, whatever Tf, Te, D_T and D_L are.
C9_NoTrailersNoDeliveries ==
    (pc = "returned" /\ status \in StatusOK /\ n = 1
       /\ data.initial_state.FT = 0 /\ data.initial_state.ET = 0) =>
        result.objective_deliveries = 0

\* C9 amended: on such a horizon no S, V, A or R starts, so the objective is
\* the number of U starts, which is at most the initial Tf.
C9_NoTrailersOnlyShuttles ==
    (pc = "returned" /\ status \in StatusOK /\ n = 1
       /\ data.initial_state.FT = 0 /\ data.initial_state.ET = 0) =>
        /\ \A i \in DriversT : S_start[i] = {}
        /\ \A j \in DriversL : V_start[j] = {} /\ A_start[j] = {}
        /\ \A k \in DOMAIN R_start : R_start[k] = 0
        /\ result.objective_deliveries
              = Sum([i \in DriversT |-> Cardinality(U_start[i])], DriversT)
        /\ result.objective_deliveries <= data.initial_state.Tf

\* such a horizon returned with a delivery
C9_Witness ==
    /\ pc = "returned" /\ status \in StatusOK /\ n = 1
    /\ data.initial_state.FT = 0 /\ data.initial_state.ET = 0
    /\ result.objective_deliveries >= 1

\* C10: when the solver status is not OPTIMAL or FEASIBLE, solve returns
\* that status with objective 0 and empty starts lists, without reading any
\* variable assignment from the solver.
C10_NoSolutionNotRead ==
    (pc \in {"returned", "raised"} /\ status \notin StatusOK) =>
        /\ pc = "returned"
        /\ result.status = status
        /\ result.objective_deliveries = 0 /\ result.objective_liters = 0
        /\ \A k \in 1 .. n :
              /\ \A i \in DriversT : result.days[k].drivers_T[i] = 0
              /\ \A j \in DriversL : result.days[k].drivers_L[j] = 0
        /\ value_reads = 0

\* C11: when a task duration (345, 240, 270, 585, 30 minutes) or an effect or
\* entry offset (90, 120, 240, 555 minutes) is not a multiple of slot_minutes,
\* solve rejects the request before building the model: it never returns a
\* schedule computed with rounded-down slot counts.
C11_RejectsFractionalSlots ==
    (\E minutes \in {345, 240, 270, 585, 30, 90, 120, 555} :
        minutes % slot_minutes # 0) =>
        ~ (pc = "returned" /\ result.status \in StatusOK)

\* C12: for the one-day request with D_T = 1, D_L = 0, initial_state
\* {FT: 0, ET: 1, Tf: 1, Te: 1} and default limits, the optimal solution (its
\* objective is 1, the most any schedule of this request delivers) has one S
\* start, at slot 0, and ends the day with FT = 1, ET = 0, Tf = 2, Te = 0.
C12_SupplyUnlocksDelivery ==
    (/\ n = 1 /\ day(0).D_T = 1 /\ day(0).D_L = 0
     /\ data.initial_state = Fleet(0, 1, 1, 1)
     /\ DOMAIN data = {"days", "initial_state", "drivers_T_base"}
     /\ pc = "returned" /\ status = "OPTIMAL"
     /\ result.objective_deliveries = 1) =>
        /\ \A i \in DriversT : S_start[i] = {0}
        /\ FT[slots_per_day] = 1 /\ ET[slots_per_day] = 0
        /\ Tf[slots_per_day] = 2 /\ Te[slots_per_day] = 0

\* C13: a shuttle U takes one free tractor (Tf) at its start and gives one
\* free tractor (Tf) back at its end, shuttle_end_offset slots later, so that
\* Tf[k+1] = Tf[k] + s[k - supply end] + r[k - refill end] - u[k] + u[k - shuttle end]
\* and Te receives nothing from a shuttle.
C13_ShuttleReturnsFreeTractor ==
    LET s(k) == IF k < 0 THEN 0 ELSE Cardinality({i \in DriversT : k \in S_start[i]})
        u(k) == IF k < 0 THEN 0 ELSE Cardinality({i \in DriversT : k \in U_start[i]})
        r(k) == IF k < 0 THEN 0 ELSE R_start[k]
    IN  \A k \in DOMAIN R_start :
            /\ Tf[k + 1] = Tf[k] + s(k - supply_end_offset) + r(k - refill_end_offset)
                              - u(k) + u(k - shuttle_end_offset)
            /\ Te[k + 1] = Te[k] - s(k) - r(k)

\* C14: a constraint whose parameter is negative is disabled, here for
\* break_drive_cap_minutes and drive_minutes_extended: the schedules are those
\* of the model without the break rule (or without the daily limit), so the
\* idle schedule (no start so far, inventory within its totals) can always be
\* extended by one more slot.
C14_NegativeDisables ==
    (/\ break_drive_cap_minutes < 0 \/ drive_minutes_extended < 0
     /\ pc = "slots" /\ t < slots_per_day
     /\ init_in_domain /\ totals_ok(init_FT, init_ET, init_Tf, init_Te)
     /\ \A i \in DriversT : S_start[i] = {} /\ U_start[i] = {}
     /\ \A j \in DriversL : V_start[j] = {} /\ A_start[j] = {}
     /\ \A k \in DOMAIN R_start : R_start[k] = 0) =>
        ENABLED Step

\* C15: every task started in a day has all its inventory effects applied
\* at a boundary of that day, so at the last boundary of every day FT + ET
\* and Tf + Te equal their values at the day's boundary 0.
C15_FleetConserved ==
    DayAssigned =>
        /\ FT[slots_per_day] + ET[slots_per_day] = FT[0] + ET[0]
        /\ Tf[slots_per_day] + Te[slots_per_day] = Tf[0] + Te[0]

====
